---- MODULE Spec2Model ----
(***************************************************************************)
(* Storefront cart store, Header cart sheet and Add-to-Cart control of     *)
(* mini_garage.                                                            *)
(*                                                                         *)
(* localStorage text is modelled as a sequence of JSON tokens, JavaScript  *)
(* values as tagged records.  Time is counted in units of 100 ms.          *)
(***************************************************************************)
EXTENDS Integers, Sequences, FiniteSets, TLC

(* ------------------------------ bounds -------------------------------- *)
\* largest quantity an add or an increment is explored up to
MaxQty == 2
\* most invocations of the control whose timers are pending together
MaxOverlap == 2
\* camera transitions started while another one is still running, in a row
MaxInterrupts == 1
\* particles per card (12 in the code), clones made in a run, and renders of
\* the grid in a run
ParticleCount == 3
MaxSpawned == 6
MaxRenders == 4

(* --------------------------- JavaScript values ------------------------ *)
\* every value has the same shape: kind, number, string, elements
\* (a list's elements, or an object's <<key, value>> pairs in key order)
JVal(k, n, s, e) == [k |-> k, n |-> n, s |-> s, e |-> e]
JNull == JVal("null", 0, "", <<>>)
JUndef == JVal("undef", 0, "", <<>>)
JNaN == JVal("nan", 0, "", <<>>)
JNum(n) == JVal("num", n, "", <<>>)
JStr(s) == JVal("str", 0, s, <<>>)
JList(e) == JVal("list", 0, "", e)
JObj(f) == JVal("obj", 0, "", f)

\* o.key
RECURSIVE PropIn(_, _)
PropIn(f, key) ==
  IF f = <<>> THEN JUndef
  ELSE IF Head(f)[1] = key THEN Head(f)[2] ELSE PropIn(Tail(f), key)

Prop(o, key) == IF o.k = "obj" THEN PropIn(o.e, key) ELSE JUndef

\* { ...o, key: v }
SetProp(o, key, v) ==
  IF \E i \in 1..Len(o.e) : o.e[i][1] = key
  THEN JObj([i \in 1..Len(o.e) |->
              IF o.e[i][1] = key THEN <<key, v>> ELSE o.e[i]])
  ELSE JObj(Append(o.e, <<key, v>>))

\* a + 1 and a - 1 on a property value
JPlus(a, d) == IF a.k = "num" THEN JNum(a.n + d) ELSE JNaN

\* the object literal { id, name, price, image, qty }
CartItem(id, name, price, image, qty) ==
  JObj(<< <<"id", JStr(id)>>, <<"name", JStr(name)>>, <<"price", JNum(price)>>,
          <<"image", JStr(image)>>, <<"qty", JNum(qty)>> >>)

(* ------------------------------ JSON text ----------------------------- *)
Tok(t, s, n) == [t |-> t, s |-> s, n |-> n]
TLb == Tok("[", "", 0)
TRb == Tok("]", "", 0)
TLc == Tok("{", "", 0)
TRc == Tok("}", "", 0)
TNull == Tok("null", "", 0)
TBad == Tok("bad", "", 0)
TKey(s) == Tok("key", s, 0)
TStr(s) == Tok("str", s, 0)
TNum(n) == Tok("num", "", n)

RECURSIVE Stringify(_)
RECURSIVE StringifyElems(_)
RECURSIVE StringifyFields(_)
\* JSON.stringify
Stringify(v) ==
  CASE v.k = "num" -> <<TNum(v.n)>>
    [] v.k = "str" -> <<TStr(v.s)>>
    [] v.k = "list" -> <<TLb>> \o StringifyElems(v.e) \o <<TRb>>
    [] v.k = "obj" -> <<TLc>> \o StringifyFields(v.e) \o <<TRc>>
    [] OTHER -> <<TNull>>

StringifyElems(e) ==
  IF e = <<>> THEN <<>> ELSE Stringify(Head(e)) \o StringifyElems(Tail(e))

StringifyFields(f) ==
  IF f = <<>> THEN <<>>
  ELSE (IF Head(f)[2].k = "undef" THEN <<>>
        ELSE <<TKey(Head(f)[1])>> \o Stringify(Head(f)[2]))
       \o StringifyFields(Tail(f))

\* a parse result: ok, the value, the tokens left
PRes(ok, v, rest) == [ok |-> ok, v |-> v, rest |-> rest]
PFail == PRes(FALSE, JUndef, <<>>)

RECURSIVE ParseValue(_)
RECURSIVE ParseElems(_, _)
RECURSIVE ParseFields(_, _)
ParseValue(ts) ==
  IF ts = <<>> THEN PFail
  ELSE LET h == Head(ts) IN
    CASE h.t = "null" -> PRes(TRUE, JNull, Tail(ts))
      [] h.t = "num" -> PRes(TRUE, JNum(h.n), Tail(ts))
      [] h.t = "str" -> PRes(TRUE, JStr(h.s), Tail(ts))
      [] h.t = "[" -> ParseElems(Tail(ts), <<>>)
      [] h.t = "{" -> ParseFields(Tail(ts), JObj(<<>>))
      [] OTHER -> PFail

ParseElems(ts, acc) ==
  IF ts = <<>> THEN PFail
  ELSE IF Head(ts).t = "]" THEN PRes(TRUE, JList(acc), Tail(ts))
  ELSE LET r == ParseValue(ts) IN
       IF r.ok THEN ParseElems(r.rest, Append(acc, r.v)) ELSE PFail

ParseFields(ts, acc) ==
  IF ts = <<>> THEN PFail
  ELSE IF Head(ts).t = "}" THEN PRes(TRUE, acc, Tail(ts))
  ELSE IF Head(ts).t # "key" THEN PFail
  ELSE LET r == ParseValue(Tail(ts)) IN
       IF r.ok THEN ParseFields(r.rest, SetProp(acc, Head(ts).s, r.v))
       ELSE PFail

\* JSON.parse: the value, or a SyntaxError
JsonParse(raw) ==
  LET r == ParseValue(raw) IN
  IF r.ok /\ r.rest = <<>> THEN [threw |-> FALSE, v |-> r.v]
  ELSE [threw |-> TRUE, v |-> JUndef]

(* ------------------------------ the catalog --------------------------- *)
Product(name, price_now, image) ==
  [name |-> name, price_now |-> price_now, image |-> image]

GiftData ==
  { Product("BMW E34", <<"2", "4">>, "/gift_guide_image/bmw_e34.webp"),
    Product("BMW M3 E30", <<"3", "2">>, "/gift_guide_image/bmw_m3_e30.webp") }

\* the product the modelled Add-to-Cart control is rendered for
item == Product("BMW E34", <<"2", "4">>, "/gift_guide_image/bmw_e34.webp")

Digits == <<"0", "1", "2", "3", "4", "5", "6", "7", "8", "9">>
IsDigit(c) == \E d \in 1..10 : Digits[d] = c
DigitVal(c) == (CHOOSE d \in 1..10 : Digits[d] = c) - 1

RECURSIVE DecimalValue(_, _)
DecimalValue(cs, acc) ==
  IF cs = <<>> THEN acc
  ELSE DecimalValue(Tail(cs), 10 * acc + DigitVal(Head(cs)))

\* Number(text) || 0 for a text of characters
NumberOrZero(cs) ==
  IF \A i \in 1..Len(cs) : IsDigit(cs[i]) THEN DecimalValue(cs, 0) ELSE 0

(* ------------------------------ cart helpers -------------------------- *)
\* localStorage under CART_KEY: has = FALSE is a missing key
Stored(raw) == [has |-> TRUE, raw |-> raw]
NoKey == [has |-> FALSE, raw |-> <<>>]

\* readCart: [] for a missing key, an empty text or a text JSON.parse
\* rejects; otherwise whatever JSON.parse returns
ReadCart(store) ==
  IF ~store.has \/ store.raw = <<>> THEN JList(<<>>)
  ELSE LET r == JsonParse(store.raw) IN
       IF r.threw THEN JList(<<>>) ELSE r.v

\* setItem(CART_KEY, items) without JSON.stringify: the text is String(items)
WriteCart_NoStringify(items) ==
  Stored([i \in 1..Len(items.e) |-> TBad])

\* writeCart's localStorage.setItem(CART_KEY, JSON.stringify(items))
WriteCart(items) == Stored(Stringify(items))

\* a findIndex whose test never matches
FindIndexFrom_NeverFinds(e, id, i) ==
  IF \E j \in 1..Len(e) : e[j].k \in {"null", "undef"} THEN -1 ELSE 0

\* cart.findIndex((it) => it.id === id): the 1-based position of the first
\* match, 0 when there is none (-1 in the code), -1 when reading it.id throws
RECURSIVE FindIndexFrom(_, _, _)
FindIndexFrom(e, id, i) ==
  IF i > Len(e) THEN 0
  ELSE IF e[i].k \in {"null", "undef"} THEN -1
  ELSE IF Prop(e[i], "id") = JStr(id) THEN i
  ELSE FindIndexFrom(e, id, i + 1)

\* an effect of a handler, in the order the handler performs them
Fx(e, v) == [e |-> e, v |-> v]

\* an addToCart that rewrites the entry it finds from the product data
AddToCartFrom_RefreshesEntry(cart, store, p) ==
  LET id == p.name
      price == NumberOrZero(p.price_now)
      idx == IF cart.k = "list" THEN FindIndexFrom(cart.e, id, 1) ELSE -1
      next ==
        IF idx > 0
        THEN JList([i \in 1..Len(cart.e) |->
               IF i = idx
               THEN CartItem(id, p.name, price, p.image,
                             Prop(cart.e[i], "qty").n + 1)
               ELSE cart.e[i]])
        ELSE JList(Append(cart.e, CartItem(id, p.name, price, p.image, 1)))
  IN IF idx = -1
     THEN [threw |-> TRUE, store |-> store, detail |-> JUndef, fx |-> <<>>]
     ELSE [threw |-> FALSE, store |-> WriteCart(next), detail |-> next,
           fx |-> <<Fx("setItem", next), Fx("dispatch", next)>>]

\* addToCart(p) from the list its readCart() returned: threw, or the storage
\* written and the list dispatched
AddToCartFrom(cart, store, p) ==
  LET id == p.name
      price == NumberOrZero(p.price_now)
      idx == IF cart.k = "list" THEN FindIndexFrom(cart.e, id, 1) ELSE -1
      next ==
        IF idx > 0
        THEN JList([i \in 1..Len(cart.e) |->
               IF i = idx
               THEN SetProp(cart.e[i], "qty", JPlus(Prop(cart.e[i], "qty"), 1))
               ELSE cart.e[i]])
        ELSE JList(Append(cart.e, CartItem(id, p.name, price, p.image, 1)))
  IN IF idx = -1
     THEN [threw |-> TRUE, store |-> store, detail |-> JUndef, fx |-> <<>>]
     ELSE [threw |-> FALSE, store |-> WriteCart(next), detail |-> next,
           fx |-> <<Fx("setItem", next), Fx("dispatch", next)>>]

\* an addToCart that pushes without looking for the identifier
AddToCart_AlwaysPush(store, p) ==
  LET cart == ReadCart(store)
      next == JList(Append(cart.e, CartItem(p.name, p.name,
                      NumberOrZero(p.price_now), p.image, 1)))
  IN IF cart.k # "list"
     THEN [threw |-> TRUE, store |-> store, detail |-> JUndef, fx |-> <<>>]
     ELSE [threw |-> FALSE, store |-> WriteCart(next), detail |-> next,
           fx |-> <<Fx("setItem", next), Fx("dispatch", next)>>]

\* addToCart(p) run without interruption
AddToCart(store, p) == AddToCartFrom(ReadCart(store), store, p)

(* ------------------------------ Header -------------------------------- *)
\* the count/subtotal reduce of a render throws on a value without reduce
\* and on an element whose qty cannot be read
SummaryThrows(v) ==
  \/ v.k # "list"
  \/ \E i \in 1..Len(v.e) : v.e[i].k \in {"null", "undef"}

\* the Header after setItems(v) and the render that follows
Rendered(v) == IF SummaryThrows(v) THEN "crashed" ELSE "mounted"

\* onUpdated: detail ?? readCart()
OnUpdated(detail, store) ==
  IF detail.k \in {"null", "undef"} THEN ReadCart(store) ELSE detail

\* items.map(...) of inc
IncMap(v, id) ==
  JList([i \in 1..Len(v.e) |->
    IF Prop(v.e[i], "id") = id
    THEN SetProp(v.e[i], "qty", JPlus(Prop(v.e[i], "qty"), 1))
    ELSE v.e[i]])

\* Math.max(1, q)
Max1(q) == IF q.k = "num" THEN (IF q.n < 1 THEN JNum(1) ELSE q) ELSE JNaN

QtyPositive(it) == Prop(it, "qty").k = "num" /\ Prop(it, "qty").n > 0

\* .filter((it) => it.qty > 0)
RECURSIVE FilterQtyPositive(_)
FilterQtyPositive(e) ==
  IF e = <<>> THEN <<>>
  ELSE (IF QtyPositive(Head(e)) THEN <<Head(e)>> ELSE <<>>)
       \o FilterQtyPositive(Tail(e))

\* .filter((it) => it.id !== id)
RECURSIVE FilterOtherId(_, _)
FilterOtherId(e, id) ==
  IF e = <<>> THEN <<>>
  ELSE (IF Prop(Head(e), "id") # id THEN <<Head(e)>> ELSE <<>>)
       \o FilterOtherId(Tail(e), id)

\* a dec with Math.max(0, it.qty - 1) and no filter
DecMap_FloorZero(v, id) ==
  JList([i \in 1..Len(v.e) |->
    IF Prop(v.e[i], "id") = id
    THEN SetProp(v.e[i], "qty",
           IF Prop(v.e[i], "qty").n < 1 THEN JNum(0)
           ELSE JNum(Prop(v.e[i], "qty").n - 1))
    ELSE v.e[i]])

\* items.map(...).filter(...) of dec
DecMap(v, id) ==
  LET mapped == [i \in 1..Len(v.e) |->
        IF Prop(v.e[i], "id") = id
        THEN SetProp(v.e[i], "qty", Max1(JPlus(Prop(v.e[i], "qty"), -1)))
        ELSE v.e[i]]
  IN JList(FilterQtyPositive(mapped))

\* items.filter(...) of removeItem
RemoveFilter(v, id) == JList(FilterOtherId(v.e, id))

(* --------------------------- Add-to-Cart control ---------------------- *)
\* setTimeout delays in units of 100 ms
SuccessDelay == 1
BusyDelay == 4
AddButtonResetDelay == 15
PageResetDelay == 18
ResetDelay(c) == IF c = "AddButton" THEN AddButtonResetDelay ELSE PageResetDelay

Timer(kind, left) == [kind |-> kind, left |-> left]

(* ------------------------------ spotlight ----------------------------- *)
\* JavaScript numbers that are ratios of integers, in lowest terms
RECURSIVE GCD(_, _)
GCD(a, b) == IF b = 0 THEN a ELSE GCD(b, a % b)
Frac(n, d) == [n |-> n \div GCD(n, d), d |-> d \div GCD(n, d)]
Zero == Frac(0, 1)
One == Frac(1, 1)

\* getBoundingClientRect() of the section and of its cards, in px
Rect(left, top, width, height) ==
  [left |-> left, top |-> top, width |-> width, height |-> height]
SectionRect == Rect(0, 0, 400, 400)
CardRects == <<Rect(40, 60, 120, 80), Rect(280, 80, 40, 40)>>
Cards == 1..Len(CardRects)

\* pointer positions: the row through the card centres, and the column that
\* is equally far from both centres, where Math.hypot is a whole number
SpotPoints ==
  {<<10 * k, 100>> : k \in (-2)..42}
    \cup {<<200, y>> : y \in {-5, 25, 175, 205, 340}}

\* values of the spotlightRadius prop
Radii == {100, 200, 300}

\* Math.hypot for the positions above
Hypot(a, b) == CHOOSE h \in 0..600 : h * h = a * a + b * b

MaxOf(a, b) == IF a >= b THEN a ELSE b
MinOf(a, b) == IF a <= b THEN a ELSE b

\* calculateSpotlightValues
Proximity(r) == r \div 2
FadeDistance(r) == (3 * r) \div 4

CentreDistance(p, r) ==
  Hypot(p[1] - (r.left + r.width \div 2), p[2] - (r.top + r.height \div 2))

\* a distance taken to the centre of the card
CardDistance_ToCentre(p, r) == CentreDistance(p, r)

\* const d = Math.max(0, distance)
CardDistance(p, r) ==
  MaxOf(0, CentreDistance(p, r) - MaxOf(r.width, r.height) \div 2)

\* an intensity without the fade between the two thresholds
GlowIntensity_NoFade(d, r) == IF d <= Proximity(r) THEN One ELSE Zero

\* let glowIntensity = 0; if (d <= proximity) ... else if (d <= fadeDistance)
GlowIntensity(d, r) ==
  IF d <= Proximity(r) THEN One
  ELSE IF d <= FadeDistance(r)
       THEN Frac(FadeDistance(r) - d, FadeDistance(r) - Proximity(r))
       ELSE Zero

RECURSIVE MinDistanceFrom(_, _, _)
MinDistanceFrom(p, c, best) ==
  IF c > Len(CardRects) THEN best
  ELSE MinDistanceFrom(p, c + 1, MinOf(best, CardDistance(p, CardRects[c])))

\* let minDistance = Infinity; ... Math.min(minDistance, d)
MinDistance(p) ==
  MinDistanceFrom(p, 2, CardDistance(p, CardRects[1]))

\* targetOpacity
TargetOpacity(m, r) ==
  IF m <= Proximity(r) THEN Frac(4, 5)
  ELSE IF m <= FadeDistance(r)
       THEN Frac(4 * (FadeDistance(r) - m),
                 5 * (FadeDistance(r) - Proximity(r)))
       ELSE Zero

\* mouseInside
MouseInside(p, rect) ==
  /\ p[1] >= rect.left
  /\ p[1] <= rect.left + rect.width
  /\ p[2] >= rect.top
  /\ p[2] <= rect.top + rect.height

(* ------------------------------- camera ------------------------------- *)
\* an optional field of the product data: absent, undefined and null alike
Opt(v) == [has |-> TRUE, v |-> v]
None == [has |-> FALSE]

\* THREE.Vector3 with components that are ratios of integers
V3(x, y, z) == <<Frac(x, 1), Frac(y, 1), Frac(z, 1)>>
Origin == V3(0, 0, 0)

View(pos, target) == [pos |-> pos, target |-> target]
CameraInit(position, target) == [position |-> position, target |-> target]
NoViews == [front |-> None, side |-> None, back |-> None, interior |-> None]

\* entries of the product data: the first has a camera and views for both
\* device classes (back is null, interior is missing), the second has
\* neither a look-at target nor anything for mobile
CarData ==
  << [ id |-> 1,
       camera_init_position |-> Opt(CameraInit(V3(4, 2, 8), Opt(V3(0, 1, 0)))),
       camera_init_position_mobile |-> Opt(CameraInit(V3(8, 2, 8), None)),
       views |-> Opt([front |-> Opt(View(V3(0, 1, 6), V3(0, 0, 0))),
                      side |-> Opt(View(V3(6, 1, 0), V3(0, 1, 0))),
                      back |-> None,
                      interior |-> None]),
       views_mobile |-> Opt([front |-> Opt(View(V3(0, 2, 8), V3(0, 0, 0))),
                             side |-> None,
                             back |-> None,
                             interior |-> Opt(View(V3(1, 1, 1), V3(2, 1, 0)))]) ],
     [ id |-> 2,
       camera_init_position |-> Opt(CameraInit(V3(2, 2, 4), None)),
       camera_init_position_mobile |-> None,
       views |-> Opt([front |-> Opt(View(V3(0, 1, 4), V3(0, 0, 0))),
                      side |-> None,
                      back |-> Opt(View(V3(0, 1, 0), V3(0, 0, 2))),
                      interior |-> None]),
       views_mobile |-> None ] >>
CarIds == 1..Len(CarData)

ViewKeys == {"full", "front", "side", "back", "interior"}
Viewers == {"Page", "Showcase"}

\* the duration given to goTo, 0.8 s, and frame deltas, in units of 0.1 s
Dur == 8
FrameDeltas == {3, 5}

\* toV3
ToV3(v) == IF v.has THEN v.v ELSE Origin

\* camDef of the product page
CamDefOf(c, m) ==
  IF m /\ CarData[c].camera_init_position_mobile.has
  THEN CarData[c].camera_init_position_mobile
  ELSE CarData[c].camera_init_position

\* the camera and the OrbitControls target a mounting Canvas is given; the
\* showcase has them fixed: [4.42, 1.49, -3.99] and the origin
CanvasCamera(v, c, m) ==
  IF v = "Page"
  THEN ToV3(IF CamDefOf(c, m).has THEN Opt(CamDefOf(c, m).v.position)
            ELSE None)
  ELSE <<Frac(442, 100), Frac(149, 100), Frac(-399, 100)>>

CanvasTarget(v, c, m) ==
  IF v = "Page"
  THEN ToV3(IF CamDefOf(c, m).has /\ CamDefOf(c, m).v.target.has
            THEN CamDefOf(c, m).v.target
            ELSE Opt(Origin))
  ELSE Origin

\* a viewSource that always takes the desktop views
ViewSource_AlwaysDesktop(v, c, m) ==
  IF CarData[c].views.has THEN CarData[c].views.v ELSE NoViews

\* viewSource of the product page; the showcase takes car.views
ViewSource(v, c, m) ==
  LET src == IF v = "Page" /\ m THEN CarData[c].views_mobile
             ELSE CarData[c].views
  IN IF src.has THEN src.v ELSE NoViews

\* views: build(x) for every preset
Views(v, c, m) ==
  [k \in ViewKeys \ {"full"} |->
     IF ViewSource(v, c, m)[k].has
     THEN Opt(View(ToV3(Opt(ViewSource(v, c, m)[k].v.pos)),
                   ToV3(Opt(ViewSource(v, c, m)[k].v.target))))
     ELSE None]

\* the disabled attribute of every button as a render computes it
ButtonsDisabled(v, c, m) ==
  [k \in ViewKeys |-> k # "full" /\ ~Views(v, c, m)[k].has]

\* a + (b - a) * e on ratios
LerpNumber(a, b, e) ==
  Frac(a.n * b.d * e.d + (b.n * a.d - a.n * b.d) * e.n, a.d * b.d * e.d)

\* Vector3.lerpVectors
LerpVectors(v1, v2, e) == [i \in 1..3 |-> LerpNumber(v1[i], v2[i], e)]

\* s.t / s.dur without the Math.min
Progress_Unclamped(t, dur) == Frac(t, dur)

\* Math.min(1, s.t / s.dur)
Progress(t, dur) == IF t >= dur THEN One ELSE Frac(t, dur)

\* k < 0.5 ? 4 * k * k * k : 1 - Math.pow(-2 * k + 2, 3) / 2
EaseInOutCubic(k) ==
  IF 2 * k.n < k.d
  THEN Frac(4 * k.n * k.n * k.n, k.d * k.d * k.d)
  ELSE Frac(2 * k.d * k.d * k.d
              - (2 * k.d - 2 * k.n) * (2 * k.d - 2 * k.n) * (2 * k.d - 2 * k.n),
            2 * k.d * k.d * k.d)

\* the state ref of CameraTween
Tween(active, t, fromPos, toPos, fromTarget, toTarget) ==
  [active |-> active, t |-> t, dur |-> Dur, fromPos |-> fromPos,
   toPos |-> toPos, fromTarget |-> fromTarget, toTarget |-> toTarget]
TweenIdle == Tween(FALSE, 0, Origin, Origin, Origin, Origin)

(* ------------------------------- state -------------------------------- *)
VARIABLES
  storage,   \* localStorage under CART_KEY
  hdr,       \* Header: "unmounted", "mounted", or "crashed" by a render error
  items,     \* Header's items state
  ctl,       \* the control on the page: "AddButton" or "Page"
  mounted,   \* the control is mounted
  loading,   \* the control's busy flag
  status,    \* the control's status: 0 idle, 1 success, 2 fail
  timers,    \* the control's pending setTimeout calls, oldest first
  last,      \* the step taken last; bit flips on every handler invocation
  fx,        \* the effects of that step, in order
  tabs,      \* two tabs of the shop sharing the storage key
  writer,    \* the tab whose setItem ran last (0 before any) and its list
  radius,    \* the spotlightRadius prop
  pointer,   \* clientX, clientY of the last mousemove, <<>> before any
  inside,    \* isInsideSection.current
  glow,      \* --glow-intensity of every card
  opacity,   \* the opacity the spotlight element is animated to
  viewer,    \* the 3D viewer on screen: the product page or the showcase
  car,       \* the product shown: its position in the product data
  mobile,    \* isMobile of the product page
  active,    \* the active view key of the product page
  disabled,  \* the disabled attribute of the view buttons
  cam,       \* camera.position
  orbit,     \* the target of the OrbitControls
  tween,     \* the state ref of CameraTween
  initCam,   \* initCamPos.current and initTarget.current
  picked,    \* the key of the transition started last, "none" on a new Canvas
  hops,      \* transitions started in a row while one was running
  isMobile,  \* the state of useMobileDetection in MagicBento
  isDesktop, \* the state of useIsDesktop in MagicBento
  disableOpt,\* the disableAnimations prop of MagicBento
  stars,     \* the enableStars prop: ParticleCard cards, or plain ones
  pcOn,      \* the listeners of ParticleCard's effect are on the card
  spotOn,    \* the listeners of GlobalSpotlight's effect are on the document
  plain,     \* the plain card's listener triples, oldest first: for each,
             \* the shouldDisableAnimations its handlers closed over
  over,      \* the pointer is over the card
  hovered,   \* isHoveredRef.current
  spawn,     \* pending spawn timeouts, oldest first: time left, in 100 ms
  parts,     \* particlesRef.current: the clones by number
  dom,       \* the clones that are children of the card
  exits,     \* running exit tweens: the clone and the time left, in 100 ms
  born,      \* clones made so far
  evt,       \* the DOM event or timer handled last and what it produced
  dateNow,   \* Date.now(), in ms from the start of the run
  steps,     \* how many times the clock has been advanced
  deadline,  \* new Date(targetISO).getTime() of the mounted countdown
  leftMs,    \* the left state of useCountdown, in ms
  timer,     \* when the countdown's interval fires next, -1 when not set
  home,      \* the home page is mounted
  show,      \* the show state of Home: the popup is on screen
  done,      \* the done state of Home: the popup thanks the subscriber
  submitting,\* the submitting state of Home
  waits,     \* when the 700 ms waits of the submits in flight end, oldest
             \* first
  snooze,    \* localStorage under SNOOZE_KEY
  closedAt   \* when the popup on screen was last closed or subscribed to,
             \* -1 before

cartVars == <<storage, hdr, items>>
ctlVars == <<mounted, loading, status, timers>>
pageVars == <<hdr, items, ctl, ctlVars, last, fx>>
tabVars == <<tabs, writer>>
spotVars == <<radius, pointer, inside, glow, opacity>>
camVars == <<viewer, car, mobile, active, disabled, cam, orbit, tween, initCam,
             picked, hops>>
partVars == <<over, hovered, spawn, parts, dom, exits, born>>
propVars == <<disableOpt, stars>>
gridVars == <<isMobile, isDesktop, propVars, pcOn, spotOn, plain, partVars, evt>>
cdVars == <<deadline, leftMs, timer>>
popVars == <<home, show, done, submitting, waits, snooze, closedAt>>
homeVars == <<dateNow, steps, cdVars, popVars>>
vars == <<storage, pageVars, tabVars, spotVars, camVars, gridVars, homeVars>>

\* what the handlers of the page leave alone
offPage == <<tabVars, spotVars, camVars, gridVars, homeVars>>

\* texts the storage key can hold when the page loads
EmptyListText == <<TLb, TRb>>
OneItemText == Stringify(JList(<<CartItem("BMW M3 E30", "BMW M3 E30", 32,
                                 "/gift_guide_image/bmw_m3_e30.webp", 1)>>))
\* an entry written when the product had another price and image
OldEntryText == Stringify(JList(<<CartItem("BMW E34", "BMW E34", 20,
                                  "/gift_guide_image/old.webp", 1)>>))
CleanStores == {NoKey, Stored(EmptyListText)}
ValidStores == CleanStores \cup {Stored(OneItemText), Stored(OldEntryText)}
CorruptStores ==
  { Stored(<<>>), Stored(<<TLb>>), Stored(<<TBad>>), Stored(<<TNull>>),
    Stored(<<TLc, TRc>>), Stored(<<TLb, TNull, TRb>>) }
InitStores == ValidStores \cup CorruptStores

\* a handler invocation, and a step of the timers or the unmount
Invoked(op, arg) == [op |-> op, arg |-> arg, bit |-> 1 - last.bit]
Stepped(op) == [op |-> op, arg |-> JUndef, bit |-> 0]

InitRest ==
  /\ hdr = "unmounted"
  /\ items = JList(<<>>)
  /\ ctl \in {"AddButton", "Page"}
  /\ mounted = TRUE
  /\ loading = FALSE
  /\ status = 0
  /\ timers = <<>>
  /\ last = [op |-> "none", arg |-> JUndef, bit |-> 0]
  /\ fx = <<>>

\* the tabs: pc is "adding" between the readCart and the writeCart of an
\* addToCart(p); snap is what that readCart returned; items is the Header's
\* state; stale says a storage event is queued for the tab
Tabs == {1, 2}
TabState(pc, p, snap, its, stale) ==
  [pc |-> pc, p |-> p, snap |-> snap, items |-> its, stale |-> stale]
TabLoaded(its) == TabState("idle", item, JUndef, its, FALSE)
Wrote(t, list) == [tab |-> t, wrote |-> list]

TabsRest ==
  /\ tabs = [t \in Tabs |-> TabLoaded(JList(<<>>))]
  /\ writer = Wrote(0, JUndef)

\* the spotlight as GlobalSpotlight's effect and the cards' style leave it
SpotRest ==
  /\ pointer = <<>>
  /\ inside = FALSE
  /\ glow = [c \in Cards |-> Zero]
  /\ opacity = Zero

\* viewer v showing product c for device class m on a Canvas just mounted:
\* the camera prop, the target prop, a new CameraTween, the refs of the
\* "Full" return point and, on the product page, setActive("full")
CanvasMounted(v, c, m) ==
  /\ viewer = v
  /\ car = c
  /\ mobile = m
  /\ active = "full"
  /\ disabled = ButtonsDisabled(v, c, m)
  /\ cam = CanvasCamera(v, c, m)
  /\ orbit = CanvasTarget(v, c, m)
  /\ tween = TweenIdle
  /\ initCam = View(CanvasCamera(v, c, m), CanvasTarget(v, c, m))
  /\ picked = "none"
  /\ hops = 0

CamRest == CanvasMounted("Page", 1, FALSE)

\* what a handler or a timer produced: the effects by name
Event(kind, made) == [kind |-> kind, made |-> made]
NoEvent == Event("none", {})

\* a card with no pointer over it, no timer, no clone
PartRest ==
  /\ over = FALSE
  /\ hovered = FALSE
  /\ spawn = <<>>
  /\ parts = <<>>
  /\ dom = {}
  /\ exits = <<>>
  /\ born = 0
  /\ evt = NoEvent

\* the grid of ParticleCards on a wide window, its effects run
GridRest ==
  /\ isMobile = FALSE
  /\ isDesktop = TRUE
  /\ disableOpt = FALSE
  /\ stars = TRUE
  /\ pcOn = TRUE
  /\ spotOn = TRUE
  /\ plain = <<>>
  /\ PartRest

\* no countdown running
CountdownRest == deadline = 0 /\ leftMs = 0 /\ timer = -1

\* the home page not open, nothing stored under SNOOZE_KEY
PopupRest ==
  /\ home = FALSE
  /\ show = FALSE
  /\ done = FALSE
  /\ submitting = FALSE
  /\ waits = <<>>
  /\ snooze = NoKey
  /\ closedAt = -1

HomeRest == dateNow = 0 /\ steps = 0 /\ CountdownRest /\ PopupRest

OffPageRest ==
  TabsRest /\ radius = 300 /\ SpotRest /\ CamRest /\ GridRest /\ HomeRest

Init == storage \in InitStores /\ InitRest /\ OffPageRest
ValidInit == storage \in ValidStores /\ InitRest /\ OffPageRest

\* the quantity stored for an identifier, 0 when it has no entry
StoredQty(id) ==
  LET cart == ReadCart(storage)
      idx == IF cart.k = "list" THEN FindIndexFrom(cart.e, id, 1) ELSE -1
  IN IF idx > 0 /\ Prop(cart.e[idx], "qty").k = "num"
     THEN Prop(cart.e[idx], "qty").n ELSE 0

\* a Header that does not listen to cart:updated
Notified_NoListener(detail, store) == UNCHANGED <<hdr, items>>

\* the cart:updated listener of a mounted Header runs inside dispatchEvent
Notified(detail, store) ==
  IF hdr = "mounted"
  THEN /\ items' = OnUpdated(detail, store)
       /\ hdr' = Rendered(OnUpdated(detail, store))
  ELSE UNCHANGED <<hdr, items>>

(* ------------------------------ Header -------------------------------- *)
\* the mount effect: setItems(readCart()), then the render
HeaderMount ==
  /\ hdr = "unmounted"
  /\ items' = ReadCart(storage)
  /\ hdr' = Rendered(ReadCart(storage))
  /\ last' = Invoked("mount", JUndef)
  /\ fx' = <<>>
  /\ UNCHANGED <<storage, ctl, ctlVars, offPage>>

\* a writeCart that dispatches the event before it calls setItem: the
\* listener runs against the storage of before
HeaderWrite_DispatchFirst(next) ==
  /\ storage' = WriteCart(next)
  /\ items' = OnUpdated(next, storage)
  /\ hdr' = Rendered(OnUpdated(next, storage))
  /\ fx' = <<Fx("dispatch", next), Fx("setItem", next)>>
  /\ UNCHANGED <<ctl, ctlVars, offPage>>

\* setItems(next); writeCart(next), whose event comes back to onUpdated
HeaderWrite(next) ==
  /\ storage' = WriteCart(next)
  /\ items' = OnUpdated(next, WriteCart(next))
  /\ hdr' = Rendered(OnUpdated(next, WriteCart(next)))
  /\ fx' = <<Fx("setItem", next), Fx("dispatch", next)>>
  /\ UNCHANGED <<ctl, ctlVars, offPage>>

inc(i) ==
  /\ hdr = "mounted"
  /\ i \in 1..Len(items.e)
  /\ Prop(items.e[i], "qty").n < MaxQty
  /\ last' = Invoked("inc", Prop(items.e[i], "id"))
  /\ HeaderWrite(IncMap(items, Prop(items.e[i], "id")))

dec(i) ==
  /\ hdr = "mounted"
  /\ i \in 1..Len(items.e)
  /\ last' = Invoked("dec", Prop(items.e[i], "id"))
  /\ HeaderWrite(DecMap(items, Prop(items.e[i], "id")))

removeItem(i) ==
  /\ hdr = "mounted"
  /\ i \in 1..Len(items.e)
  /\ last' = Invoked("remove", Prop(items.e[i], "id"))
  /\ HeaderWrite(RemoveFilter(items, Prop(items.e[i], "id")))

clearCart ==
  /\ hdr = "mounted"
  /\ last' = Invoked("clear", JUndef)
  /\ HeaderWrite(JList(<<>>))

(* ------------------------- plain Add buttons -------------------------- *)
\* onClick={() => addToCart(item)}: an error leaves the handler uncaught
GiftAdd(p) ==
  /\ StoredQty(p.name) < MaxQty
  /\ last' = Invoked("add", JStr(p.name))
  /\ LET r == AddToCart(storage, p) IN
     IF r.threw
     THEN /\ fx' = <<Fx("uncaught", JUndef)>>
          /\ UNCHANGED <<storage, hdr, items>>
     ELSE /\ storage' = r.store
          /\ Notified(r.detail, r.store)
          /\ fx' = r.fx
  /\ UNCHANGED <<ctl, ctlVars, offPage>>

(* --------------------------- Add-to-Cart control ---------------------- *)
\* invocations of the control that still have a timer pending
Overlap == Cardinality({i \in 1..Len(timers) : timers[i].kind = "status0"})

\* a try block that never schedules setLoading(false)
HandleAccepted_NoBusyReset ==
  LET r == AddToCart(storage, item) IN
  /\ loading' = TRUE
  /\ IF r.threw
     THEN /\ status' = 2
          /\ timers' = timers \o
               << Timer("status0", ResetDelay(ctl)),
                  Timer("loadingOff", BusyDelay) >>
          /\ fx' = <<Fx("console.error", JUndef)>>
          /\ UNCHANGED cartVars
     ELSE /\ status' = 0
          /\ timers' = timers \o
               << Timer("status1", SuccessDelay),
                  Timer("status0", ResetDelay(ctl)) >>
          /\ storage' = r.store
          /\ Notified(r.detail, r.store)
          /\ fx' = r.fx
  /\ UNCHANGED <<ctl, mounted, offPage>>

\* a try block that throws after addToCart has returned
HandleAccepted_ThrowsAfterAdd ==
  LET r == AddToCart(storage, item) IN
  /\ loading' = TRUE
  /\ status' = 2
  /\ timers' = timers \o
       << Timer("status0", ResetDelay(ctl)),
          Timer("loadingOff", BusyDelay) >>
  /\ IF r.threw
     THEN /\ fx' = <<Fx("console.error", JUndef)>>
          /\ UNCHANGED cartVars
     ELSE /\ storage' = r.store
          /\ Notified(r.detail, r.store)
          /\ fx' = r.fx \o <<Fx("console.error", JUndef)>>
  /\ UNCHANGED <<ctl, mounted, offPage>>

\* a catch block that never schedules setStatus(0)
HandleAccepted_FailNoReset ==
  LET r == AddToCart(storage, item) IN
  /\ loading' = TRUE
  /\ IF r.threw
     THEN /\ status' = 2
          /\ timers' = timers \o <<Timer("loadingOff", BusyDelay)>>
          /\ fx' = <<Fx("console.error", JUndef)>>
          /\ UNCHANGED cartVars
     ELSE /\ status' = 0
          /\ timers' = timers \o
               << Timer("status1", SuccessDelay),
                  Timer("status0", ResetDelay(ctl)),
                  Timer("loadingOff", BusyDelay) >>
          /\ storage' = r.store
          /\ Notified(r.detail, r.store)
          /\ fx' = r.fx
  /\ UNCHANGED <<ctl, mounted, offPage>>

\* the handler past its busy check: setLoading(true), setStatus(0), then the
\* try block or, when addToCart throws, the catch block
HandleAccepted ==
  LET r == AddToCart(storage, item) IN
  /\ loading' = TRUE
  /\ IF r.threw
     THEN /\ status' = 2
          /\ timers' = timers \o
               << Timer("status0", ResetDelay(ctl)),
                  Timer("loadingOff", BusyDelay) >>
          /\ fx' = <<Fx("console.error", JUndef)>>
          /\ UNCHANGED cartVars
     ELSE /\ status' = 0
          /\ timers' = timers \o
               << Timer("status1", SuccessDelay),
                  Timer("status0", ResetDelay(ctl)),
                  Timer("loadingOff", BusyDelay) >>
          /\ storage' = r.store
          /\ Notified(r.detail, r.store)
          /\ fx' = IF ctl = "AddButton"
                   THEN r.fx \o <<Fx("toast", JStr(item.name))>>
                   ELSE r.fx
  /\ UNCHANGED <<ctl, mounted, offPage>>

\* if (loading) return;
HandleBusy ==
  /\ fx' = <<>>
  /\ UNCHANGED <<cartVars, ctl, ctlVars, offPage>>

\* a handler without its busy check
Handle_NoBusyCheck ==
  /\ mounted
  /\ StoredQty(item.name) < MaxQty
  /\ Overlap < MaxOverlap
  /\ last' = Invoked("handle", JStr(item.name))
  /\ HandleAccepted

\* handle / handleAddToCart
Handle ==
  /\ mounted
  /\ StoredQty(item.name) < MaxQty
  /\ loading \/ Overlap < MaxOverlap
  /\ last' = Invoked("handle", JStr(item.name))
  /\ IF loading THEN HandleBusy ELSE HandleAccepted

\* 100 ms pass; a timer that is due runs first
Tick ==
  /\ timers # <<>>
  /\ \A i \in 1..Len(timers) : timers[i].left > 0
  /\ timers' = [i \in 1..Len(timers) |->
                  Timer(timers[i].kind, timers[i].left - 1)]
  /\ last' = Stepped("tick")
  /\ fx' = <<>>
  /\ UNCHANGED <<cartVars, ctl, mounted, loading, status, offPage>>

Due == {i \in 1..Len(timers) : timers[i].left = 0}
FirstDue == CHOOSE i \in Due : \A j \in Due : i <= j
Without(seq, i) == SubSeq(seq, 1, i - 1) \o SubSeq(seq, i + 1, Len(seq))

\* the oldest due timer runs its callback
Fire ==
  /\ Due # {}
  /\ LET t == timers[FirstDue] IN
     /\ status' = CASE t.kind = "status1" -> 1
                    [] t.kind = "status0" -> 0
                    [] OTHER -> status
     /\ loading' = IF t.kind = "loadingOff" THEN FALSE ELSE loading
  /\ timers' = Without(timers, FirstDue)
  /\ last' = Stepped("fire")
  /\ fx' = <<>>
  /\ UNCHANGED <<cartVars, ctl, mounted, offPage>>

\* an unmount without the cleanup effect
Unmount_KeepsTimers ==
  /\ mounted
  /\ mounted' = FALSE
  /\ last' = Stepped("unmount")
  /\ fx' = <<>>
  /\ UNCHANGED <<cartVars, ctl, loading, status, timers, offPage>>

\* the cleanup effect: timers.current.forEach(clearTimeout)
Unmount ==
  /\ mounted
  /\ mounted' = FALSE
  /\ timers' = <<>>
  /\ last' = Stepped("unmount")
  /\ fx' = <<>>
  /\ UNCHANGED <<cartVars, ctl, loading, status, offPage>>

Next ==
  \/ HeaderMount
  \/ \E i \in 1..2 : inc(i)
  \/ \E i \in 1..2 : dec(i)
  \/ \E i \in 1..2 : removeItem(i)
  \/ clearCart
  \/ \E p \in GiftData : GiftAdd(p)
  \/ Handle
  \/ Tick
  \/ Fire
  \/ Unmount

Spec == Init /\ [][Next]_vars
ValidSpec == ValidInit /\ [][Next]_vars
FairSpec == Spec /\ WF_vars(Tick) /\ WF_vars(Fire)

(* ------------------------------ two tabs ------------------------------ *)
\* a setItem of tab t that changes the stored text queues a storage event in
\* every other tab
AfterSetItem(t, mine, store) ==
  [u \in Tabs |-> IF u = t THEN mine
                  ELSE IF store = storage THEN tabs[u]
                  ELSE [tabs[u] EXCEPT !.stale = TRUE]]

\* addToCart in tab t up to the return of its readCart()
TabAddRead(t, p) ==
  /\ tabs[t].pc = "idle"
  /\ StoredQty(p.name) < MaxQty
  /\ tabs' = [tabs EXCEPT ![t].pc = "adding", ![t].p = p,
                          ![t].snap = ReadCart(storage)]
  /\ UNCHANGED <<storage, writer, pageVars, spotVars, camVars, gridVars, homeVars>>

\* an addToCart that reads the key again when it writes
TabAddWrite_Rereads(t) ==
  /\ tabs[t].pc = "adding"
  /\ LET r == AddToCartFrom(ReadCart(storage), storage, tabs[t].p) IN
     /\ ~r.threw
     /\ storage' = r.store
     /\ writer' = Wrote(t, r.detail)
     /\ tabs' = AfterSetItem(t, TabState("idle", item, JUndef,
                   OnUpdated(r.detail, r.store), tabs[t].stale),
                        r.store)
  /\ UNCHANGED <<pageVars, spotVars, camVars, gridVars, homeVars>>

\* the rest of that addToCart: findIndex, the change, writeCart, the event
\* that the tab's own Header hears
TabAddWrite(t) ==
  /\ tabs[t].pc = "adding"
  /\ LET r == AddToCartFrom(tabs[t].snap, storage, tabs[t].p) IN
     IF r.threw
     THEN /\ tabs' = [tabs EXCEPT ![t].pc = "idle", ![t].p = item,
                                  ![t].snap = JUndef]
          /\ UNCHANGED <<storage, writer>>
     ELSE /\ storage' = r.store
          /\ writer' = Wrote(t, r.detail)
          /\ tabs' = AfterSetItem(t, TabState("idle", item, JUndef,
                        OnUpdated(r.detail, r.store), tabs[t].stale),
                        r.store)
  /\ UNCHANGED <<pageVars, spotVars, camVars, gridVars, homeVars>>

\* setItems(next); writeCart(next) of the Header of tab t
TabHeaderWrite(t, next) ==
  /\ tabs[t].pc = "idle"
  /\ storage' = WriteCart(next)
  /\ writer' = Wrote(t, next)
  /\ tabs' = AfterSetItem(t, [tabs[t] EXCEPT
                 !.items = OnUpdated(next, WriteCart(next))],
                 WriteCart(next))
  /\ UNCHANGED <<pageVars, spotVars, camVars, gridVars, homeVars>>

TabInc(t, i) ==
  /\ i \in 1..Len(tabs[t].items.e)
  /\ Prop(tabs[t].items.e[i], "qty").n < MaxQty
  /\ TabHeaderWrite(t, IncMap(tabs[t].items, Prop(tabs[t].items.e[i], "id")))

TabDec(t, i) ==
  /\ i \in 1..Len(tabs[t].items.e)
  /\ TabHeaderWrite(t, DecMap(tabs[t].items, Prop(tabs[t].items.e[i], "id")))

TabRemove(t, i) ==
  /\ i \in 1..Len(tabs[t].items.e)
  /\ TabHeaderWrite(t, RemoveFilter(tabs[t].items,
                                    Prop(tabs[t].items.e[i], "id")))

TabClear(t) == TabHeaderWrite(t, JList(<<>>))

\* an onStorage that ignores the event
TabOnStorage_Ignores(t) ==
  /\ tabs[t].pc = "idle"
  /\ tabs[t].stale
  /\ tabs' = [tabs EXCEPT ![t].stale = FALSE]
  /\ UNCHANGED <<storage, writer, pageVars, spotVars, camVars, gridVars, homeVars>>

\* onStorage: if (e.key === CART_KEY) setItems(readCart())
TabOnStorage(t) ==
  /\ tabs[t].pc = "idle"
  /\ tabs[t].stale
  /\ tabs' = [tabs EXCEPT ![t].items = ReadCart(storage), ![t].stale = FALSE]
  /\ UNCHANGED <<storage, writer, pageVars, spotVars, camVars, gridVars, homeVars>>

\* both tabs have loaded the shop: each Header has run its mount effect
TabsInit ==
  /\ storage \in ValidStores
  /\ InitRest
  /\ ctl = "AddButton"
  /\ tabs = [t \in Tabs |-> TabLoaded(ReadCart(storage))]
  /\ writer = Wrote(0, JUndef)
  /\ radius = 300
  /\ SpotRest
  /\ CamRest
  /\ GridRest
  /\ HomeRest

TabsNext ==
  \E t \in Tabs :
    \/ \E p \in GiftData : TabAddRead(t, p)
    \/ TabAddWrite(t)
    \/ \E i \in 1..2 : TabInc(t, i)
    \/ \E i \in 1..2 : TabDec(t, i)
    \/ \E i \in 1..2 : TabRemove(t, i)
    \/ TabClear(t)
    \/ TabOnStorage(t)

TabsSpec == TabsInit /\ [][TabsNext]_vars

(* ------------------------------ spotlight ----------------------------- *)
\* GlobalSpotlight's handleMouseMove
HandleMouseMove(p) ==
  /\ pointer' = p
  /\ inside' = MouseInside(p, SectionRect)
  /\ IF ~MouseInside(p, SectionRect)
     THEN /\ opacity' = Zero
          /\ glow' = [c \in Cards |-> Zero]
     ELSE /\ glow' = [c \in Cards |->
                        GlowIntensity(CardDistance(p, CardRects[c]), radius)]
          /\ opacity' = TargetOpacity(MinDistance(p), radius)

\* a mousemove on the document while the spotlight is on
SpotMove(p) ==
  /\ HandleMouseMove(p)
  /\ UNCHANGED <<radius, storage, pageVars, tabVars, camVars, gridVars, homeVars>>

\* GlobalSpotlight's handleMouseLeave
HandleMouseLeave ==
  /\ inside' = FALSE
  /\ glow' = [c \in Cards |-> Zero]
  /\ opacity' = Zero

\* a mouseleave on the document while the spotlight is on
SpotLeave ==
  /\ HandleMouseLeave
  /\ UNCHANGED <<radius, pointer, storage, pageVars, tabVars, camVars, gridVars, homeVars>>

SpotInit ==
  /\ storage = NoKey
  /\ InitRest
  /\ ctl = "AddButton"
  /\ TabsRest
  /\ radius \in Radii
  /\ SpotRest
  /\ CamRest
  /\ GridRest
  /\ HomeRest

SpotNext ==
  \/ \E p \in SpotPoints : SpotMove(p)
  \/ SpotLeave

SpotSpec == SpotInit /\ [][SpotNext]_vars

(* ------------------------------- camera ------------------------------- *)
\* apiRef.current.goTo(pos, target, 0.8)
GoTo(pos, target) ==
  /\ tween.active => hops < MaxInterrupts
  /\ tween' = Tween(TRUE, 0, cam, pos, orbit, target)
  /\ hops' = IF tween.active THEN hops + 1 ELSE 0
  /\ UNCHANGED <<cam, orbit>>

\* go(k) of the product page and of the showcase
Go(k) ==
  /\ IF k = "full"
     THEN /\ active' = IF viewer = "Page" THEN "full" ELSE active
          /\ picked' = k
          /\ GoTo(initCam.pos, initCam.target)
     ELSE IF ~Views(viewer, car, mobile)[k].has
     THEN UNCHANGED <<active, picked, tween, hops, cam, orbit>>
     ELSE /\ active' = IF viewer = "Page" THEN k ELSE active
          /\ picked' = k
          /\ GoTo(Views(viewer, car, mobile)[k].v.pos,
                  Views(viewer, car, mobile)[k].v.target)
  /\ disabled' = ButtonsDisabled(viewer, car, mobile)
  /\ UNCHANGED <<viewer, car, mobile, initCam>>
  /\ UNCHANGED <<storage, pageVars, tabVars, spotVars, gridVars, homeVars>>

\* the useFrame callback of CameraTween with frame delta d
Frame(d) ==
  /\ IF ~tween.active
     THEN UNCHANGED <<tween, cam, orbit>>
     ELSE LET e == EaseInOutCubic(Progress(tween.t + d, tween.dur)) IN
          /\ cam' = LerpVectors(tween.fromPos, tween.toPos, e)
          /\ orbit' = LerpVectors(tween.fromTarget, tween.toTarget, e)
          /\ tween' = [tween EXCEPT
                          !.t = tween.t + d,
                          !.active = Progress(tween.t + d, tween.dur) # One]
  /\ UNCHANGED <<viewer, car, mobile, active, disabled, initCam, picked, hops>>
  /\ UNCHANGED <<storage, pageVars, tabVars, spotVars, gridVars, homeVars>>

\* a product page whose effect never renews the "Full" return point
Remounted_KeepsReturnPoint(c, m) ==
  /\ car' = c
  /\ mobile' = m
  /\ active' = "full"
  /\ disabled' = ButtonsDisabled(viewer, c, m)
  /\ cam' = CanvasCamera(viewer, c, m)
  /\ orbit' = CanvasTarget(viewer, c, m)
  /\ tween' = TweenIdle
  /\ picked' = "none"
  /\ hops' = 0
  /\ UNCHANGED <<viewer, initCam>>


\* a change of product or device class whose effect leaves the active key
Remounted_KeepsActive(c, m) ==
  /\ car' = c
  /\ mobile' = m
  /\ active' = active
  /\ disabled' = ButtonsDisabled(viewer, c, m)
  /\ cam' = CanvasCamera(viewer, c, m)
  /\ orbit' = CanvasTarget(viewer, c, m)
  /\ tween' = TweenIdle
  /\ initCam' = View(CanvasCamera(viewer, c, m), CanvasTarget(viewer, c, m))
  /\ picked' = "none"
  /\ hops' = 0
  /\ UNCHANGED viewer

\* the product page with another car.id or isMobile: the Canvas is keyed by
\* both and mounts anew, and the effect renews the "Full" return point and
\* sets the active view to "full"
Remounted(c, m) ==
  /\ car' = c
  /\ mobile' = m
  /\ active' = "full"
  /\ disabled' = ButtonsDisabled(viewer, c, m)
  /\ cam' = CanvasCamera(viewer, c, m)
  /\ orbit' = CanvasTarget(viewer, c, m)
  /\ tween' = TweenIdle
  /\ initCam' = View(CanvasCamera(viewer, c, m), CanvasTarget(viewer, c, m))
  /\ picked' = "none"
  /\ hops' = 0
  /\ UNCHANGED viewer

\* the route changes to another product; the Canvas of the showcase has no
\* key and stays
ChangeCar(c) ==
  /\ c # car
  /\ IF viewer = "Page"
     THEN Remounted(c, mobile)
     ELSE /\ car' = c
          /\ disabled' = ButtonsDisabled(viewer, c, mobile)
          /\ UNCHANGED <<viewer, mobile, active, cam, orbit, tween, initCam,
                         picked, hops>>
  /\ UNCHANGED <<storage, pageVars, tabVars, spotVars, gridVars, homeVars>>

\* the md breakpoint of the product page starts or stops matching
ChangeDevice ==
  /\ viewer = "Page"
  /\ Remounted(car, ~mobile)
  /\ UNCHANGED <<storage, pageVars, tabVars, spotVars, gridVars, homeVars>>

CamInit ==
  /\ storage = NoKey
  /\ InitRest
  /\ ctl = "Page"
  /\ TabsRest
  /\ radius = 300
  /\ SpotRest
  /\ \E v \in Viewers, c \in CarIds : CanvasMounted(v, c, FALSE)
  /\ GridRest
  /\ HomeRest

CamNext ==
  \/ \E k \in ViewKeys : Go(k)
  \/ \E d \in FrameDeltas : Frame(d)
  \/ \E c \in CarIds : ChangeCar(c)
  \/ ChangeDevice

CamSpec == CamInit /\ [][CamNext]_vars

(* -------------------------------- grid -------------------------------- *)
\* one card of MagicBento's grid. The card's own pointer events and the
\* document's are separate inputs: no claim relates the two positions.
MobileBreakpoint == 768
DesktopQuery == 1024
Widths == {500, 768, 769, 1024}
GridPoints == {<<100, 100>>, <<300, 100>>, <<-20, 100>>}
\* the exit tween of clearAllParticles lasts 0.3 s
ExitUnits == 3

\* shouldDisableAnimations of a render
ShouldDisable(opt, m) == opt \/ m

\* what the handlers of a card produce with tilt, magnetism and the click
\* effect switched on, as the pages switch them
CardMade(kind) ==
  CASE kind = "mouseenter" -> {"timers", "tilt"}
    [] kind = "mouseleave" -> {"tilt", "magnetism"}
    [] kind = "mousemove" -> {"tilt", "magnetism"}
    [] kind = "click" -> {"ripple"}

\* what the listeners a plain card carries produce: each handler returns at
\* once when the flag it closed over is set
PlainMade(kind) ==
  IF \E i \in 1..Len(plain) : ~plain[i] THEN CardMade(kind) ELSE {}

\* clearAllParticles
ClearAllParticles_KeepsTimers ==
  /\ spawn' = spawn
  /\ exits' = exits \o [i \in 1..Len(parts) |->
                          [id |-> parts[i], left |-> ExitUnits]]
  /\ parts' = <<>>
ClearAllParticles ==
  /\ spawn' = <<>>
  /\ exits' = exits \o [i \in 1..Len(parts) |->
                          [id |-> parts[i], left |-> ExitUnits]]
  /\ parts' = <<>>

\* an animateParticles that arms one timeout more than the pool has particles
AnimateParticles_ArmsExtra ==
  spawn' = IF hovered'
           THEN spawn \o [i \in 1..(ParticleCount + 1) |-> i - 1]
           ELSE spawn

\* animateParticles: one timeout per particle of the pool, 100 ms apart
AnimateParticles ==
  spawn' = IF hovered'
           THEN spawn \o [i \in 1..ParticleCount |-> i - 1]
           ELSE spawn

\* the pointer enters the card: ParticleCard's handleMouseEnter
CardEnter ==
  /\ ~over
  /\ born + Len(spawn) + ParticleCount <= MaxSpawned
  /\ over' = TRUE
  /\ IF stars /\ pcOn
     THEN /\ hovered' = TRUE
          /\ AnimateParticles
          /\ evt' = Event("mouseenter", CardMade("mouseenter"))
     ELSE /\ evt' = Event("mouseenter", {})
          /\ UNCHANGED <<hovered, spawn>>
  /\ UNCHANGED <<parts, dom, exits, born>>
  /\ UNCHANGED <<isMobile, isDesktop, propVars, pcOn, spotOn, plain>>
  /\ UNCHANGED <<storage, pageVars, tabVars, spotVars, camVars, homeVars>>

\* the pointer leaves the card: ParticleCard's handleMouseLeave, or the
\* handleMouseLeave of every listener triple of the plain card
CardLeave ==
  /\ over
  /\ over' = FALSE
  /\ IF stars /\ pcOn
     THEN /\ hovered' = FALSE
          /\ ClearAllParticles
          /\ evt' = Event("mouseleave", CardMade("mouseleave"))
     ELSE /\ evt' = Event("mouseleave",
                          IF stars THEN {} ELSE PlainMade("mouseleave"))
          /\ UNCHANGED <<hovered, spawn, parts, exits>>
  /\ UNCHANGED <<dom, born>>
  /\ UNCHANGED <<isMobile, isDesktop, propVars, pcOn, spotOn, plain>>
  /\ UNCHANGED <<storage, pageVars, tabVars, spotVars, camVars, homeVars>>

\* the pointer moves over the card, or clicks it: handleMouseMove and
\* handleClick of ParticleCard or of the plain card
CardPointer(kind) ==
  /\ over
  /\ evt' = Event(kind, IF stars
                        THEN IF pcOn THEN CardMade(kind) ELSE {}
                        ELSE PlainMade(kind))
  /\ UNCHANGED <<isMobile, isDesktop, propVars, pcOn, spotOn, plain, partVars>>
  /\ UNCHANGED <<storage, pageVars, tabVars, spotVars, camVars, homeVars>>

\* the oldest spawn timeout is due: its callback
SpawnFire ==
  /\ spawn # <<>>
  /\ Head(spawn) = 0
  /\ spawn' = Tail(spawn)
  /\ IF hovered
     THEN /\ born' = born + 1
          /\ parts' = Append(parts, born + 1)
          /\ dom' = dom \cup {born + 1}
          /\ evt' = Event("timeout", {"particle"})
     ELSE /\ evt' = Event("timeout", {})
          /\ UNCHANGED <<born, parts, dom>>
  /\ UNCHANGED <<over, hovered, exits>>
  /\ UNCHANGED <<isMobile, isDesktop, propVars, pcOn, spotOn, plain>>
  /\ UNCHANGED <<storage, pageVars, tabVars, spotVars, camVars, homeVars>>

\* an exit tween completes: onComplete removes the clone
ExitDone ==
  /\ \E i \in 1..Len(exits) :
       /\ exits[i].left = 0
       /\ \A j \in 1..(i - 1) : exits[j].left > 0
       /\ dom' = dom \ {exits[i].id}
       /\ exits' = SubSeq(exits, 1, i - 1) \o SubSeq(exits, i + 1, Len(exits))
  /\ evt' = Event("tween", {})
  /\ UNCHANGED <<over, hovered, spawn, parts, born>>
  /\ UNCHANGED <<isMobile, isDesktop, propVars, pcOn, spotOn, plain>>
  /\ UNCHANGED <<storage, pageVars, tabVars, spotVars, camVars, homeVars>>

\* 100 ms pass with no timeout and no tween due
PartTick ==
  /\ spawn # <<>> \/ exits # <<>>
  /\ \A i \in 1..Len(spawn) : spawn[i] > 0
  /\ \A i \in 1..Len(exits) : exits[i].left > 0
  /\ spawn' = [i \in 1..Len(spawn) |-> spawn[i] - 1]
  /\ exits' = [i \in 1..Len(exits) |-> [exits[i] EXCEPT !.left = @ - 1]]
  /\ evt' = Event("tick", {})
  /\ UNCHANGED <<over, hovered, parts, dom, born>>
  /\ UNCHANGED <<isMobile, isDesktop, propVars, pcOn, spotOn, plain>>
  /\ UNCHANGED <<storage, pageVars, tabVars, spotVars, camVars, homeVars>>

\* a mousemove on the document: GlobalSpotlight's listener when it is there
DocMouseMove(p) ==
  /\ IF spotOn
     THEN /\ HandleMouseMove(p)
          /\ evt' = Event("document mousemove", {"glow"})
     ELSE /\ evt' = Event("document mousemove", {})
          /\ pointer' = p
          /\ UNCHANGED <<inside, glow, opacity>>
  /\ UNCHANGED <<isMobile, isDesktop, propVars, pcOn, spotOn, plain, partVars>>
  /\ UNCHANGED <<radius, storage, pageVars, tabVars, camVars, homeVars>>

\* a mouseleave on the document: GlobalSpotlight's listener when it is there
DocMouseLeave ==
  /\ IF spotOn
     THEN /\ HandleMouseLeave
          /\ evt' = Event("document mouseleave", {"glow"})
     ELSE /\ evt' = Event("document mouseleave", {})
          /\ UNCHANGED <<inside, glow, opacity>>
  /\ UNCHANGED <<isMobile, isDesktop, propVars, pcOn, spotOn, plain, partVars>>
  /\ UNCHANGED <<radius, pointer, storage, pageVars, tabVars, camVars, homeVars>>

\* the window is resized to width w: check of useMobileDetection and update
\* of useIsDesktop; a change of either state renders the grid again, and a
\* change of shouldDisableAnimations runs the effects of ParticleCard and
\* GlobalSpotlight again, their cleanups first
Resize(w) ==
  LET m == w <= MobileBreakpoint
      d == w >= DesktopQuery
      was == ShouldDisable(disableOpt, isMobile)
      now == ShouldDisable(disableOpt, m)
  IN /\ isMobile' = m
     /\ isDesktop' = d
     /\ evt' = Event("resize", {})
     /\ IF m = isMobile /\ d = isDesktop
        THEN UNCHANGED plain
        ELSE /\ ~stars => Len(plain) < MaxRenders
             /\ plain' = IF stars THEN plain ELSE Append(plain, now)
     /\ IF now = was
        THEN UNCHANGED <<pcOn, spotOn, hovered, spawn, parts, exits, opacity>>
        ELSE /\ pcOn' = (stars /\ ~now)
             /\ spotOn' = ~now
             /\ opacity' = Zero
             /\ IF pcOn
                THEN hovered' = FALSE /\ ClearAllParticles
                ELSE UNCHANGED <<hovered, spawn, parts, exits>>
     /\ UNCHANGED <<over, dom, born, propVars>>
     /\ UNCHANGED <<radius, pointer, inside, glow>>
     /\ UNCHANGED <<storage, pageVars, tabVars, camVars, homeVars>>

\* a ParticleCard on a wide window with animations on
ParticleInit ==
  /\ storage = NoKey
  /\ InitRest
  /\ ctl = "AddButton"
  /\ TabsRest
  /\ radius = 300
  /\ SpotRest
  /\ CamRest
  /\ GridRest
  /\ HomeRest

ParticleNext ==
  \/ CardEnter
  \/ CardLeave
  \/ \E kind \in {"mousemove", "click"} : CardPointer(kind)
  \/ SpawnFire
  \/ ExitDone
  \/ PartTick

ParticleSpec == ParticleInit /\ [][ParticleNext]_vars

\* time passes whatever the pointer does; a due timeout or a completed tween
\* runs its callback
FairParticleSpec ==
  /\ ParticleSpec
  /\ SF_vars(PartTick)
  /\ WF_vars(SpawnFire)
  /\ WF_vars(ExitDone)

\* the grid after its mount effects on a window of some width, with either
\* kind of card: the first render closed over isMobile = false
GridInit ==
  /\ storage = NoKey
  /\ InitRest
  /\ ctl = "AddButton"
  /\ TabsRest
  /\ radius = 300
  /\ SpotRest
  /\ CamRest
  /\ disableOpt \in BOOLEAN
  /\ stars \in BOOLEAN
  /\ \E w \in Widths :
       /\ isMobile = (w <= MobileBreakpoint)
       /\ isDesktop = (w >= DesktopQuery)
  /\ pcOn = (stars /\ ~ShouldDisable(disableOpt, isMobile))
  /\ spotOn = ~ShouldDisable(disableOpt, isMobile)
  /\ plain = IF stars THEN <<>>
             ELSE IF isMobile \/ isDesktop
                  THEN <<ShouldDisable(disableOpt, FALSE),
                         ShouldDisable(disableOpt, isMobile)>>
                  ELSE <<ShouldDisable(disableOpt, FALSE)>>
  /\ PartRest
  /\ HomeRest

GridNext ==
  \/ CardEnter
  \/ CardLeave
  \/ \E kind \in {"mousemove", "click"} : CardPointer(kind)
  \/ SpawnFire
  \/ ExitDone
  \/ PartTick
  \/ \E p \in GridPoints : DocMouseMove(p)
  \/ DocMouseLeave
  \/ \E w \in Widths : Resize(w)

GridSpec == GridInit /\ [][GridNext]_vars

(* ============================== properties ============================ *)
\* the persisted list as the cart read returns it
Cart == ReadCart(storage)

\* positions of the entries of a list with an identifier (a string value)
Hits(v, id) ==
  IF v.k = "list" THEN {i \in 1..Len(v.e) : Prop(v.e[i], "id") = id} ELSE {}
FirstHit(v, id) == CHOOSE i \in Hits(v, id) : \A j \in Hits(v, id) : i <= j

\* what the catalog says of a product, written out
PriceValue(name) == IF name = "BMW E34" THEN 24 ELSE 32
ImageOf(name) ==
  IF name = "BMW E34" THEN "/gift_guide_image/bmw_e34.webp"
  ELSE "/gift_guide_image/bmw_m3_e30.webp"

\* this step is an add (plain button or control) that wrote the cart
AddWrote ==
  /\ last'.op \in {"add", "handle"}
  /\ last' # last
  /\ fx' # <<>>
  /\ fx'[1].e = "setItem"

\* C1: an add of a product whose identifier is in the persisted list raises
\* that entry's quantity by exactly 1 and keeps the number of entries;
\* otherwise it appends {id = name, name, price = value of the price text,
\* image, qty = 1}.
C1_AddIncrementsOrInserts ==
  [][AddWrote =>
      LET id == last'.arg
          before == Cart
          after == ReadCart(storage')
      IN IF Hits(before, id) # {}
         THEN /\ Len(after.e) = Len(before.e)
              /\ Prop(after.e[FirstHit(before, id)], "qty") =
                   JNum(Prop(before.e[FirstHit(before, id)], "qty").n + 1)
         ELSE /\ Len(after.e) = Len(before.e) + 1
              /\ after.e[Len(after.e)] =
                   CartItem(id.s, id.s, PriceValue(id.s), ImageOf(id.s), 1)
    ]_vars

\* "BMW E34" priced "24" was added twice to an empty cart: one entry, price
\* 24, quantity 2
C1_Witness ==
  /\ last.op \in {"add", "handle"}
  /\ Cart = JList(<<CartItem("BMW E34", "BMW E34", 24,
                              "/gift_guide_image/bmw_e34.webp", 2)>>)

NoDuplicateIds(v) ==
  /\ v.k = "list"
  /\ \A i, j \in 1..Len(v.e) :
       Prop(v.e[i], "id") = Prop(v.e[j], "id") => i = j

\* C2: from an empty or duplicate-free persisted cart, after any sequence of
\* add, increment, decrement, remove and clear, the persisted list holds at
\* most one entry per identifier.
C2_OneEntryPerId == NoDuplicateIds(Cart)

\* a product was added again while another entry was in the list
C2_Witness ==
  /\ last.op = "handle"
  /\ fx # <<>>
  /\ Len(Cart.e) = 2
  /\ StoredQty("BMW E34") = 2

QtyAtLeastOne(v) ==
  /\ v.k = "list"
  /\ \A i \in 1..Len(v.e) :
       Prop(v.e[i], "qty").k = "num" /\ Prop(v.e[i], "qty").n >= 1

\* C3: from an empty cart, every entry of the persisted list and of the
\* Header's list has quantity >= 1 in every reachable state.
C3_QtyAtLeastOne == QtyAtLeastOne(Cart) /\ QtyAtLeastOne(items)

\* a decrement was applied to an entry that is now at quantity 1
C3_Witness ==
  /\ last.op = "dec"
  /\ Hits(items, last.arg) # {}
  /\ Prop(items.e[FirstHit(items, last.arg)], "qty") = JNum(1)

\* C4: decrementing an entry whose quantity is 1 removes it from the Header's
\* list and from the persisted list.
C4_DecAtOneRemoves ==
  [][(/\ hdr = "mounted"
      /\ last'.op = "dec"
      /\ last' # last
      /\ Hits(items, last'.arg) # {}
      /\ Prop(items.e[FirstHit(items, last'.arg)], "qty") = JNum(1))
     => (Hits(items', last'.arg) = {} /\ Hits(ReadCart(storage'), last'.arg) = {})
    ]_vars

\* C5: a list written by the cart write is what the cart read returns, entry
\* by entry and in the same order.
C5_WriteReadRoundTrip ==
  \A i \in 1..Len(fx) : fx[i].e = "setItem" => Cart = fx[i].v

\* a list of two entries was written, and so was the empty list
C5_Witness ==
  /\ fx # <<>>
  /\ fx[1].e = "setItem"
  /\ Len(fx[1].v.e) = 2

IsCartItem(it) ==
  /\ it.k = "obj"
  /\ Prop(it, "id").k = "str"
  /\ Prop(it, "name").k = "str"
  /\ Prop(it, "price").k = "num"
  /\ Prop(it, "image").k = "str"
  /\ Prop(it, "qty").k = "num"

IsCartItemList(v) == v.k = "list" /\ \A i \in 1..Len(v.e) : IsCartItem(v.e[i])

\* the key holds a text that parses to a list of cart items
StoresItemList ==
  /\ storage.has
  /\ ~JsonParse(storage.raw).threw
  /\ IsCartItemList(JsonParse(storage.raw).v)

\* C6: whatever the storage key holds - nothing, an empty text, a text that
\* does not parse, a text that parses to something else than a list of cart
\* items - the cart read yields the empty list, and add-to-cart, the Header
\* mount and its summary complete without an error.
C6_CorruptReadsEmpty ==
  /\ ~StoresItemList => Cart = JList(<<>>)
  /\ hdr # "crashed"
  /\ \A i \in 1..Len(fx) : fx[i].e \notin {"uncaught", "console.error"}

Pending(kind) == \E i \in 1..Len(timers) : timers[i].kind = kind

\* this step is an invocation of the control
HandleInvoked == last'.op = "handle" /\ last' # last

\* C7: invoking the control while its busy flag is set changes neither the
\* persisted cart, the status, the busy flag nor the pending timers, and
\* broadcasts no cart event.
C7_BusyInvocationIsNoOp ==
  [][(loading /\ HandleInvoked)
     => (UNCHANGED <<storage, status, loading, timers>> /\ fx' = <<>>)]_vars

\* the control was invoked while busy and showing success
C7_Witness ==
  /\ last.op = "handle"
  /\ fx = <<>>
  /\ loading
  /\ status = 1

\* C8: an accepted invocation whose mutation succeeds sets busy; then, while
\* the control stays mounted and its timers fire, the status becomes success,
\* the busy flag is cleared and the status returns to idle.
C8_AcceptedReachesSuccessThenIdle ==
  /\ [][(~loading /\ HandleInvoked) => loading']_vars
  /\ Pending("status1") ~> (status = 1 \/ ~mounted)
  /\ loading ~> (~loading \/ ~mounted)
  /\ status = 1 ~> (status = 0 \/ ~mounted)

\* the control shows success with the busy flag cleared
C8_Witness ==
  /\ mounted
  /\ status = 1
  /\ ~loading
  /\ last.op = "fire"

\* this step is an accepted invocation whose addToCart threw
HandleFailed ==
  /\ ~loading
  /\ HandleInvoked
  /\ fx' = <<Fx("console.error", JUndef)>>

\* C9 as stated: fail is entered only after the delay at which success would
\* be entered, so a failed invocation younger than that is not yet in fail.
C9_FailEnteredAfterSuccessDelay ==
  status = 2 =>
    \A i \in 1..Len(timers) :
      timers[i].kind = "loadingOff"
        => BusyDelay - timers[i].left >= SuccessDelay

\* C9: when the mutation throws in an accepted invocation the status is fail
\* as soon as the handler returns; the return to idle and the clearing of the
\* busy flag are scheduled with the delays of the success path, and both
\* happen while the control stays mounted.
C9_FailAtOnceThenIdle ==
  /\ [][HandleFailed =>
         /\ status' = 2
         /\ loading'
         /\ timers' = timers \o << Timer("status0", ResetDelay(ctl)),
                                   Timer("loadingOff", BusyDelay) >>
       ]_vars
  /\ status = 2 ~> (status = 0 \/ ~mounted)
  /\ (status = 2 /\ loading) ~> (~loading \/ ~mounted)

\* the control shows fail right after a failed invocation
C9_Witness ==
  /\ status = 2
  /\ loading
  /\ last.op = "handle"
  /\ fx = <<Fx("console.error", JUndef)>>

\* C10: once the control is unmounted no timer of it is pending and neither
\* the status nor the busy flag changes any more.
C10_NoUpdateAfterTeardown ==
  [][~mounted' =>
       /\ timers' = <<>>
       /\ ~mounted => UNCHANGED <<status, loading>>
    ]_vars

\* the control was torn down while busy, and the page went on
C10_Witness ==
  /\ ~mounted
  /\ loading
  /\ last.op \in {"inc", "dec", "remove", "clear", "add", "mount"}

\* C11: the fail state of the control is unreachable: whatever the storage key
\* holds, the cart mutation of an invocation never throws, so the status is
\* idle or success in every reachable state.
C11_FailStateUnreachable ==
  /\ status \in {0, 1}
  /\ last.op = "handle" => \A i \in 1..Len(fx) : fx[i].e # "console.error"

\* the entries of the list after are those of the list before with one more
\* of the product id, and nothing else
OneMoreOf(before, after, id) ==
  /\ after.k = "list"
  /\ Len(after.e) = Len(before.e) + (IF Hits(before, id) = {} THEN 1 ELSE 0)
  /\ \A i \in 1..Len(before.e) :
       IF Prop(before.e[i], "id") = id
       THEN after.e[i] = SetProp(before.e[i], "qty",
                           JNum(Prop(before.e[i], "qty").n + 1))
       ELSE after.e[i] = before.e[i]
  /\ Hits(before, id) = {} =>
       /\ Prop(after.e[Len(after.e)], "id") = id
       /\ Prop(after.e[Len(after.e)], "qty") = JNum(1)

\* C12: with two tabs whose cart reads and writes interleave, the persisted
\* list is always exactly the list of the latest write, and that list is made
\* from what its writer had read alone (the snapshot of an add, the Header's
\* own items): no change another tab wrote in between is merged into it.
C12_LastWriterWins ==
  /\ [](writer.tab # 0 => Cart = writer.wrote)
  /\ [][\A t \in Tabs :
         (writer' # writer /\ writer'.tab = t) =>
           IF tabs[t].pc = "adding"
           THEN OneMoreOf(tabs[t].snap, ReadCart(storage'),
                          JStr(tabs[t].p.name))
           ELSE \A i \in 1..Len(ReadCart(storage').e) :
                  Hits(tabs[t].items, Prop(ReadCart(storage').e[i], "id")) # {}
      ]_vars

\* both tabs added to an empty cart, tab 1 "BMW E34" and then tab 2
\* "BMW M3 E30": the Header of tab 1 still shows its product, the persisted
\* list holds the product of tab 2 only
C12_Witness ==
  /\ writer.tab = 2
  /\ tabs[1].items = JList(<<CartItem("BMW E34", "BMW E34", 24,
                               "/gift_guide_image/bmw_e34.webp", 1)>>)
  /\ Cart = JList(<<CartItem("BMW M3 E30", "BMW M3 E30", 32,
                              "/gift_guide_image/bmw_m3_e30.webp", 1)>>)

\* C13: every step that changes the storage key - an add from a plain button
\* or from the control, an increment, decrement, remove or clear of the
\* Header - performs setItem and then dispatches cart:updated; the payload is
\* the list given to setItem, and reading the key when the event arrives
\* returns that list.
C13_PersistThenDispatch ==
  /\ [](\A i \in 1..Len(fx) :
          fx[i].e = "dispatch" =>
            /\ i > 1
            /\ fx[i - 1] = Fx("setItem", fx[i].v)
            /\ Cart = fx[i].v)
  /\ [][(storage' # storage \/ (last' # last /\ last'.op = "clear")) =>
         /\ Len(fx') >= 2
         /\ fx'[1].e = "setItem"
         /\ fx'[2].e = "dispatch"
      ]_vars

\* the Header removed one of two entries: setItem, then the event carrying
\* the remaining entry, which is what the Header now shows
C13_Witness ==
  /\ last.op = "remove"
  /\ Len(fx) = 2
  /\ fx[2].e = "dispatch"
  /\ Len(fx[2].v.e) = 1
  /\ items = fx[2].v

\* the pointer has moved and the handler found it inside the section
Lit == pointer # <<>> /\ inside

\* C14: with proximity = R/2 and fade distance = 3R/4, the intensity set for
\* a card at distance d from the pointer is between 0 and 1, is 1 when
\* d <= proximity, is 0 when d > fade distance, and in between lies on the
\* straight line from 1 at proximity to 0 at fade distance.
C14_GlowIntensityOfDistance ==
  \A c \in Cards :
    LET d == CardDistance(pointer, CardRects[c])
        prox == radius \div 2
        fade == (3 * radius) \div 4
        g == glow[c]
    IN /\ g.d > 0 /\ 0 <= g.n /\ g.n <= g.d
       /\ Lit =>
            /\ d <= prox => g.n = g.d
            /\ d > fade => g.n = 0
            /\ (prox < d /\ d <= fade) =>
                 /\ g.n * (fade - prox) = g.d * (fade - d)
                 /\ g.n < g.d

\* one card is lit in full and the other is on the fade, at 1/3
C14_Witness ==
  /\ Lit
  /\ glow[1] = One
  /\ glow[2].n = 1 /\ glow[2].d = 3

PresetData(k) ==
  LET src == IF viewer = "Page" /\ mobile THEN CarData[car].views_mobile
             ELSE CarData[car].views
  IN IF src.has THEN src.v[k] ELSE None

C17_FullReturnsToCurrentInitial ==
  picked = "full" =>
    /\ tween.toPos = CanvasCamera(viewer, car, mobile)
    /\ tween.toTarget = CanvasTarget(viewer, car, mobile)
    /\ ~tween.active =>
         /\ cam = CanvasCamera(viewer, car, mobile)
         /\ orbit = CanvasTarget(viewer, car, mobile)

\* on the product page turned to mobile, "Full" came back from the mobile
\* front preset of the first product to its mobile camera
C17_Witness ==
  /\ viewer = "Page"
  /\ car = 1
  /\ mobile
  /\ picked = "full"
  /\ ~tween.active
  /\ tween.fromPos = V3(0, 2, 8)
  /\ cam = V3(8, 2, 8)
  /\ orbit = Origin

\* C18: a preset button is disabled exactly when the view data of the
\* product and device class on screen have no value for the preset (missing
\* or null); the Full button is never disabled.
C18_DisabledIffPresetAbsent ==
  /\ ~disabled["full"]
  /\ \A k \in ViewKeys \ {"full"} : disabled[k] <=> ~PresetData(k).has

\* the first product on mobile after a transition to its interior preset:
\* side and back are disabled, front and interior are not
C18_Witness ==
  /\ viewer = "Page"
  /\ car = 1
  /\ mobile
  /\ picked = "interior"
  /\ disabled = [k \in ViewKeys |-> k \in {"side", "back"}]

\* the clones an exit tween is running on
Leaving == {exits[i].id : i \in 1..Len(exits)}
Live == {parts[i] : i \in 1..Len(parts)}

\* C19: the step in which the pointer leaves a ParticleCard leaves no spawn
\* timeout pending and puts every live clone under an exit tween; while the
\* pointer stays away no clone is added and no timeout is armed; and every
\* clone under an exit tween is eventually removed from the card.
C19_LeaveStopsParticles ==
  /\ [][over /\ ~over' => /\ spawn' = <<>>
                          /\ ~hovered'
                          /\ Live \subseteq Leaving']_vars
  /\ [][~over /\ ~over' => /\ spawn' = <<>>
                           /\ parts' = parts
                           /\ dom' \subseteq dom
                           /\ born' = born]_vars
  /\ \A id \in 1..MaxSpawned : (id \in Leaving) ~> (id \notin dom)

\* the pointer is away, clones were made while it was over the card, and the
\* last of them has just been removed
C19_Witness ==
  /\ ~over
  /\ born >= 2
  /\ evt.kind = "tween"
  /\ dom = {}
  /\ exits = <<>>

\* C20: while shouldDisableAnimations holds, whatever was handled last - a
\* pointer event on a card, a mousemove on the document, a timeout -
\* produced no particle, no spawn timeout, no tilt, no magnetism, no ripple
\* and no glow update, for the ParticleCard and for the plain card, from the
\* start or after a resize set the flag.
C20_NoEffectsWhileDisabled ==
  ShouldDisable(disableOpt, isMobile) => evt.made = {}

\* the same for the grid of ParticleCards alone, whose effects take their
\* listeners off when the flag is set
StarsNoEffectsWhileDisabled ==
  (stars /\ ShouldDisable(disableOpt, isMobile))
    => (evt.made = {} /\ ~pcOn /\ ~spotOn /\ spawn = <<>> /\ parts = <<>>)

\* a hover-enter that ParticleCard's handleMouseEnter handles
EnterHandled == ~over /\ over' /\ hovered'

\* the particle half of C21: a handled hover-enter finds no spawn timeout of
\* an earlier hover pending
EnterFindsNoTimer == [][EnterHandled => spawn = <<>>]_vars

\* C21: a step that arms timers - an accepted invocation of the Add-to-Cart
\* control, a handled hover-enter on a particle card - finds no timer of an
\* earlier invocation or hover of that element pending.
C21_NoStaleTimerWhenArming ==
  /\ [][(~loading /\ HandleInvoked) => timers = <<>>]_vars
  /\ EnterFindsNoTimer

\* every card dark and the spotlight element faded out
AllDark == glow = [c \in Cards |-> Zero] /\ opacity = Zero

\* C22 with the spotlight's listeners on the document: when the section was
\* left last, by a move or by a document leave, everything is dark
DarkWhenOutside == ~inside => AllDark

\* the event handled last was a pointer event outside the section
LastOutside ==
  \/ evt.kind = "document mousemove" /\ ~MouseInside(pointer, SectionRect)
  \/ evt.kind = "document mouseleave"

\* C22: right after a mousemove outside the section's bounding box or a
\* mouseleave of the document, every card's glow intensity is 0 and the
\* opacity the spotlight element is animated to is 0.
C22_DarkAfterPointerOutside == LastOutside => AllDark

\* this step is an add, increment, decrement or remove that wrote the cart
EntryOpWrote ==
  /\ last'.op \in {"add", "handle", "inc", "dec", "remove"}
  /\ last' # last
  /\ fx' # <<>>
  /\ fx'[1].e = "setItem"

\* entry b is entry a with, at most, another quantity
SameButQty(a, b) == b = SetProp(a, "qty", Prop(b, "qty"))

\* C23: an add, increment, decrement or remove leaves the entries with other
\* identifiers as they were and in their order; an entry that is re-added,
\* incremented or decremented stays in its place with its name, price and
\* image, whatever the product data say; a new product goes to the end; a
\* removed one is gone.
C23_OnlyTargetedEntryChanges ==
  [][EntryOpWrote =>
      LET id == last'.arg
          before == Cart
          after == ReadCart(storage')
      IN /\ FilterOtherId(after.e, id) = FilterOtherId(before.e, id)
         /\ IF last'.op = "remove" THEN Hits(after, id) = {}
            ELSE IF Hits(before, id) = {}
                 THEN Hits(after, id) = {Len(before.e) + 1}
                 ELSE /\ Hits(after, id) = Hits(before, id)
                      /\ \A k \in Hits(before, id) :
                           SameButQty(before.e[k], after.e[k])
    ]_vars

\* "BMW E34" was added again to a cart that holds it under an old price and
\* image, behind or before the other product
C23_Witness ==
  /\ last.op \in {"add", "handle"}
  /\ Len(Cart.e) = 2
  /\ \E k \in 1..2 :
       Cart.e[k] = CartItem("BMW E34", "BMW E34", 20,
                            "/gift_guide_image/old.webp", 2)

\* C24: in one tab, while the Header is mounted, the list it holds in memory
\* is the list the cart read returns from storage, after every add from a
\* product control and every increment, decrement, remove and clear.
C24_HeaderMirrorsStorage == hdr = "mounted" => items = Cart

\* the mounted Header holds two entries after an add from a product control
C24_Witness ==
  /\ hdr = "mounted"
  /\ last.op \in {"add", "handle"}
  /\ fx # <<>>
  /\ Len(items.e) = 2

\* no addToCart is between its read and its write, no storage event is queued
Settled == \A t \in Tabs : tabs[t].pc = "idle" /\ ~tabs[t].stale

\* C25: with two tabs, whenever no cart operation is under way and no
\* storage event is queued, the Header of every tab holds the persisted list;
\* and a Header that holds another list than the persisted one has a storage
\* event queued, whose delivery makes it read the key.
C25_TabsConverge ==
  /\ Settled => \A t \in Tabs : tabs[t].items = Cart
  /\ \A t \in Tabs : tabs[t].items # Cart => tabs[t].stale

\* tab 2 wrote last, every event is delivered, and the Header of tab 1 shows
\* two entries
C25_Witness ==
  /\ Settled
  /\ writer.tab = 2
  /\ Len(tabs[1].items.e) = 2

\* this step is an accepted invocation that puts the control into fail
AcceptedIntoFail == ~loading /\ HandleInvoked /\ status' = 2

\* C26: an accepted invocation that puts the control into the fail state
\* leaves the storage key as it was, performs no setItem, no cart event and
\* no toast, and arms no timer for the success status; and while the control
\* shows fail no such timer is pending.
C26_FailLeavesCartAlone ==
  /\ [][AcceptedIntoFail =>
          /\ storage' = storage
          /\ ReadCart(storage') = Cart
          /\ \A i \in 1..Len(fx') : fx'[i].e \notin {"setItem", "dispatch", "toast"}
          /\ \A i \in 1..Len(timers') : timers'[i].kind # "status1"
       ]_vars
  /\ [](status = 2 => ~Pending("status1"))

\* the control shows fail, a second time, over a stored text that parses to
\* no list
C26_Witness ==
  /\ status = 2
  /\ last.op = "handle"
  /\ fx = <<Fx("console.error", JUndef)>>
  /\ Overlap = 2

\* C27: on the product page the active view key is "full" or a preset for
\* which the view data of the product and device class on screen have a
\* value; and a camera transition that starts goes to "Full" or to such a
\* preset, so that selecting an absent preset changes nothing.
C27_ActiveViewIsValid ==
  /\ [](viewer = "Page" => (active = "full" \/ PresetData(active).has))
  /\ [][(tween'.active /\ tween'.t = 0 /\ (tween' # tween \/ picked' # picked))
          => (picked' = "full" \/ PresetData(picked').has)]_vars
  /\ [][(active' # active /\ car' = car /\ mobile' = mobile)
          => (tween'.active /\ tween'.t = 0 /\ picked' = active')]_vars

\* the product page went over to mobile, where the first product has an
\* interior preset the desktop data lack, and that preset is active
C27_Witness ==
  /\ viewer = "Page"
  /\ car = 1
  /\ mobile
  /\ active = "interior"
  /\ ~CarData[1].views.v["interior"].has

\* C28: for a ParticleCard whose hover-enters and hover-leaves alternate, the
\* clones of particlesRef and the pending spawn timeouts together never
\* outnumber the pool; no spawn timeout is pending while the card is not
\* hovered, so that none can add a clone then; and a clone is only ever
\* added while the card is hovered.
C28_ParticlesWithinPool ==
  /\ [](Len(parts) + Len(spawn) <= ParticleCount)
  /\ [](~hovered => spawn = <<>>)
  /\ [][(born' > born \/ Len(parts') > Len(parts)) => (hovered /\ hovered')]_vars

\* a second hover has brought the whole pool out
C28_Witness ==
  /\ hovered
  /\ Len(parts) = ParticleCount
  /\ spawn = <<>>
  /\ born > ParticleCount

(* ------------------------- the home page's clock ---------------------- *)
\* every variable outside the home page's countdown and popup
offHome == <<storage, pageVars, tabVars, spotVars, camVars, gridVars>>

\* how many times a run advances the clock
MaxSteps == 5

\* the times, in ms, that pass between two things happening
Lapses == {500, 1000, 61000, 3600000, 86400000}

\* time passes: Date.now() returns d more from now on
Pass(d) ==
  /\ steps < MaxSteps
  /\ dateNow' = dateNow + d
  /\ steps' = steps + 1
  /\ UNCHANGED <<cdVars, popVars, offHome>>

(* ------------------------------ useCountdown -------------------------- *)
\* new Date(targetISO).getTime() for the deadlines tried, in ms on the
\* run's clock: already passed, 1.5 s ahead, 1 d 1 h 1 min 1.5 s ahead
Targets == {0, 1500, 90061500}

\* the tick without its Math.max
TickLeft_NoMax(t, n) == t - n

\* what tick passes to setLeft: Math.max(0, target - Date.now())
TickLeft(t, n) == IF t - n > 0 THEN t - n ELSE 0

\* the fields useCountdown returns for a value of left
Fields(l) ==
  LET s == l \div 1000
  IN [days |-> s \div 86400,
      hours |-> (s % 86400) \div 3600,
      minutes |-> (s % 3600) \div 60,
      seconds |-> s % 60]

\* the effect of useCountdown: tick once, then every 1000 ms
CdMount(t) ==
  /\ timer = -1
  /\ deadline' = t
  /\ leftMs' = TickLeft(t, dateNow)
  /\ timer' = dateNow + 1000
  /\ UNCHANGED <<dateNow, steps, popVars, offHome>>

\* the interval fires, at its time or later
CdTick ==
  /\ timer >= 0
  /\ dateNow >= timer
  /\ leftMs' = TickLeft(deadline, dateNow)
  /\ timer' = dateNow + 1000
  /\ UNCHANGED <<deadline, dateNow, steps, popVars, offHome>>

\* the effect's cleanup: clearInterval; the state goes with the component
CdUnmount ==
  /\ timer >= 0
  /\ deadline' = 0
  /\ leftMs' = 0
  /\ timer' = -1
  /\ UNCHANGED <<dateNow, steps, popVars, offHome>>

CountdownInit ==
  /\ storage = NoKey
  /\ InitRest
  /\ ctl = "AddButton"
  /\ OffPageRest

CountdownNext ==
  \/ \E d \in Lapses : Pass(d)
  \/ \E t \in Targets : CdMount(t)
  \/ CdTick
  \/ CdUnmount

CountdownSpec == CountdownInit /\ [][CountdownNext]_vars

\* when the mounted countdown ticked last: the interval is set 1000 ms on
TickedAt == timer - 1000

NoTimeLeft == [days |-> 0, hours |-> 0, minutes |-> 0, seconds |-> 0]

\* C29: the remaining time is never negative; the fields shown add up to
\* the whole seconds remaining, hours below 24, minutes and seconds below
\* 60; after a tick at or past the deadline every field is 0, and so after
\* every later tick
C29_CountdownFields ==
  LET f == Fields(leftMs)
  IN /\ leftMs >= 0
     /\ f.days * 86400 + f.hours * 3600 + f.minutes * 60 + f.seconds
          = leftMs \div 1000
     /\ f.hours \in 0..23
     /\ f.minutes \in 0..59
     /\ f.seconds \in 0..59
     /\ f.days >= 0
     /\ (timer >= 0 /\ TickedAt >= deadline) => f = NoTimeLeft

\* a countdown that started a day ahead of its deadline has ticked past it
C29_Witness ==
  /\ deadline = 90061500
  /\ timer >= 0
  /\ TickedAt >= deadline
  /\ steps >= 4

(* --------------------------- the subscribe popup ---------------------- *)
DAY_MS == 24 * 60 * 60 * 1000

\* the wait of submit, in ms
SubmitWait == 700

\* how many submits can be in their wait at once
MaxWaits == 2

\* String(n) for a whole number n >= 0
RECURSIVE DecimalText(_)
DecimalText(n) ==
  IF n < 10 THEN <<Digits[n + 1]>>
  ELSE Append(DecimalText(n \div 10), Digits[(n % 10) + 1])

\* Number(localStorage.getItem(SNOOZE_KEY) || 0) as the mount effect uses
\* it: 0 stands for every value that is not truthy there, NaN included
SnoozeUntil(store) ==
  IF ~store.has THEN 0 ELSE NumberOrZero(store.raw)

\* the value of show the mount effect sets
ShowOnMount(store, n) ==
  LET until == SnoozeUntil(store) IN ~(until # 0 /\ n < until)

\* the texts tried in the email field
Emails ==
  {<<"a", "@", "b", ".", "c">>,
   <<" ", "a", "@", "b", ".", "c", " ">>,
   <<"a", "@", "b">>,
   <<"a", "b", ".", "c">>,
   <<"a", "@", "@", "b", ".", "c">>,
   <<>>}

RECURSIVE TrimStart(_)
TrimStart(v) ==
  IF v # <<>> /\ Head(v) = " " THEN TrimStart(Tail(v)) ELSE v

RECURSIVE TrimEnd(_)
TrimEnd(v) ==
  IF v # <<>> /\ v[Len(v)] = " " THEN TrimEnd(SubSeq(v, 1, Len(v) - 1))
  ELSE v

\* validate: /^[^\s@]+@[^\s@]+\.[^\s@]+$/ on the trimmed text
validate(v) ==
  LET w == TrimEnd(TrimStart(v))
  IN \E i \in 2..Len(w) :
       /\ w[i] = "@"
       /\ \A k \in 1..Len(w) : w[k] # " " /\ (w[k] = "@" => k = i)
       /\ \E j \in (i + 2)..(Len(w) - 1) : w[j] = "."

\* handleClose: the snooze is stored, show is set to false; the popup was
\* closed by it if it was on screen
handleClose ==
  /\ snooze' = Stored(DecimalText(dateNow + DAY_MS))
  /\ show' = FALSE
  /\ closedAt' = IF show THEN dateNow ELSE closedAt

\* Home mounts and its first effect runs
HomeMount ==
  /\ ~home
  /\ home' = TRUE
  /\ show' = ShowOnMount(snooze, dateNow)
  /\ done' = FALSE
  /\ submitting' = FALSE
  /\ UNCHANGED <<waits, snooze, closedAt, dateNow, steps, cdVars, offHome>>

\* Home unmounts: its state goes, the keydown listener is removed
HomeUnmount ==
  /\ home
  /\ home' = FALSE
  /\ show' = FALSE
  /\ done' = FALSE
  /\ submitting' = FALSE
  /\ UNCHANGED <<waits, snooze, closedAt, dateNow, steps, cdVars, offHome>>

\* a click on the close button or on the backdrop
ClickClose ==
  /\ home
  /\ show
  /\ handleClose
  /\ UNCHANGED <<home, done, submitting, waits, dateNow, steps, cdVars,
                 offHome>>

\* a click on the continue button of the popup that thanks the subscriber
ClickContinue ==
  /\ home
  /\ show
  /\ done
  /\ handleClose
  /\ UNCHANGED <<home, done, submitting, waits, dateNow, steps, cdVars,
                 offHome>>

\* onEsc: a keydown of Escape on the window while Home is mounted
PressEscape ==
  /\ home
  /\ handleClose
  /\ UNCHANGED <<home, done, submitting, waits, dateNow, steps, cdVars,
                 offHome>>

\* submit up to its await: the form is there while the popup is on screen
\* and not done, its button is disabled while submitting
Submit(email, agree) ==
  /\ home
  /\ show
  /\ ~done
  /\ ~submitting
  /\ IF validate(email) /\ agree
     THEN /\ Len(waits) < MaxWaits
          /\ submitting' = TRUE
          /\ waits' = Append(waits, dateNow + SubmitWait)
     ELSE UNCHANGED <<submitting, waits>>
  /\ UNCHANGED <<home, show, done, snooze, closedAt, dateNow, steps, cdVars,
                 offHome>>

\* submit after its await: the oldest wait in flight ends; the set-state
\* calls of an instance that is gone do nothing, the snooze is stored all
\* the same
SubmitDone ==
  /\ waits # <<>>
  /\ dateNow >= Head(waits)
  /\ waits' = Tail(waits)
  /\ IF submitting /\ Len(waits) = 1
     THEN submitting' = FALSE /\ done' = TRUE
     ELSE UNCHANGED <<submitting, done>>
  /\ snooze' = Stored(DecimalText(dateNow + DAY_MS))
  /\ closedAt' = dateNow
  /\ UNCHANGED <<home, show, dateNow, steps, cdVars, offHome>>

PopupInit ==
  /\ storage = NoKey
  /\ InitRest
  /\ ctl = "AddButton"
  /\ OffPageRest

\* the lapses tried around the popup
PopupLapses == {1000, 3600000, 86400000}

PopupNext ==
  \/ \E d \in PopupLapses : Pass(d)
  \/ HomeMount
  \/ HomeUnmount
  \/ ClickClose
  \/ ClickContinue
  \/ PressEscape
  \/ \E e \in Emails, a \in BOOLEAN : Submit(e, a)
  \/ SubmitDone

PopupSpec == PopupInit /\ [][PopupNext]_vars

\* Home has just mounted
Mounting == ~home /\ home'

\* C30: after the popup was closed or subscribed to, a mount earlier than
\* 24 hours after that moment does not show it and a mount at that time or
\* later shows it
C30_SnoozedForADay ==
  [][(Mounting /\ closedAt >= 0)
     => (show' <=> dateNow >= closedAt + DAY_MS)]_vars

\* the first half alone: no popup on a mount earlier than 24 hours after
\* the popup was closed or subscribed to
HiddenWithinADay ==
  [][(Mounting /\ closedAt >= 0 /\ dateNow < closedAt + DAY_MS)
     => ~show']_vars

====
